---- MODULE Spec2Model ----
(* A model of neuropredict's results store (src/neuropredict/results.py:     *)
(* CVResults, ClassifyCVResults, RegressCVResults) and of the stub           *)
(* stat_comparison of src/neuropredict/posthoc.py.                           *)
EXTENDS Integers, Sequences, FiniteSets, TLC

\* ------------------------------------------------------------------ bounds
\* Largest repetition count a store is built with.
MaxRep == 2
\* Number of method calls made on a store after its construction.
MaxOps == 2

\* ------------------------------------------------------------- basic values
\* A slot of a metric array: NaN (missing) or a one-element tuple <<v>>.
NaN == <<>>
Val(v) == <<v>>

Range(s) == {s[i] : i \in DOMAIN s}
EmptyMap == [x \in {} |-> 0]
\* d[k] = v of a Python dict.
Put(d, k, v) == [x \in DOMAIN d \cup {k} |-> IF x = k THEN v ELSE d[x]]

\* Numbers a caller may pass as num_rep: finite v, NaN, or v * infinity.
Fin(v) == [kind |-> "fin", v |-> v]
NumNaN == [kind |-> "nan", v |-> 0]
PosInf == [kind |-> "inf", v |-> 1]
NegInf == [kind |-> "inf", v |-> -1]
\* x < k for a float x (every comparison with NaN is false).
LessThan(x, k) ==
    CASE x.kind = "fin" -> x.v < k
      [] x.kind = "nan" -> FALSE
      [] OTHER -> x.v < 0
IsFinite(x) == x.kind = "fin"

\* Python values passed as dataset_ids / metric_set / ds_ids.
None == [kind |-> "none", items |-> <<>>]
Str(s) == [kind |-> "str", items |-> <<s>>]
Scalar(s) == [kind |-> "scalar", items |-> <<s>>]
Iter(s) == [kind |-> "seq", items |-> s]

is_iterable_but_not_str(x) == x.kind = "seq"

\* str.lower on the metric names in use.
Lower(name) ==
    CASE name = "ACC" -> "acc"
      [] name = "AUC" -> "auc"
      [] name = "MAE" -> "mae"
      [] OTHER -> name

\* The scoring functions of the registry, by __name__: (true, predicted) -> scalar.
score_func(name, true, predicted) ==
    CASE name = "acc" -> IF true = predicted THEN 1 ELSE 0
      [] name = "mae" -> IF true >= predicted THEN true - predicted
                                               ELSE predicted - true
      [] OTHER -> 0

\* Keys of {func.__name__: func for func in metric_set}, in insertion order.
RECURSIVE DictKeys(_)
DictKeys(s) ==
    IF s = <<>> THEN <<>>
    ELSE LET front == DictKeys(SubSeq(s, 1, Len(s) - 1))
             x == s[Len(s)]
         IN IF x \in Range(front) THEN front ELSE Append(front, x)

\* ------------------------------------------------------------ numpy arrays
\* np.full((n,), np.NaN): slots 0..n-1.
FullNaN(n) == [i \in 0 .. (n - 1) |-> NaN]
ArrLen(a) == Cardinality(DOMAIN a)
\* a[run] exists for -len <= run < len; a negative index counts from the end.
InRangeLoose(run, n) == -n <= run /\ run <= n
InRange(run, n) == -n <= run /\ run < n
Slot(run, n) == IF run >= 0 THEN run ELSE run + n

\* ------------------------------------------------------------------- state
VARIABLES
    phase,              \* "new" | "live" | "failed": the object's construction
    args,               \* the constructor's arguments
    num_rep, dataset_ids, metric_set, metric_val, count, attr, meta,
    true_targets, predicted_targets,
    confusion_mat, misclfd_samplets, residuals,
    file,               \* the snapshot dump wrote, or NoFile
    last,               \* the last call: its arguments, its error, its result
    nops,               \* calls made so far
    written,            \* <<name, ds, slot>> assigned by add or add_metric
    adds,               \* <<ds, run>> of every add that returned
    direct              \* <<name, ds>> assigned by add_metric

vars == <<phase, args, num_rep, dataset_ids, metric_set, metric_val, count, attr,
          meta, true_targets, predicted_targets, confusion_mat,
          misclfd_samplets, residuals, file, last, nops, written, adds, direct>>

NoFile == [kind |-> "absent", items |-> <<>>]

NoCall == [op |-> "none", err |-> "none", site |-> "", run |-> 0, ds |-> "",
           name |-> "", val |-> NaN, true |-> 0, predicted |-> 0,
           ds_ids |-> None, mat |-> <<>>, ids |-> <<>>]

\* ------------------------------------------------------------- constructor
_init_new_metric_one(mv, name, ids, n) ==
    IF name \notin DOMAIN mv
    THEN Put(mv, name, [d \in {ids[1]} |-> FullNaN(n)])
    ELSE mv
_init_new_metric(mv, name, ids, n) ==
    IF name \notin DOMAIN mv
    THEN Put(mv, name, [d \in Range(ids) |-> FullNaN(n)])
    ELSE mv

RECURSIVE InitMetrics(_, _, _, _)
InitMetrics(mv, names, ids, n) ==
    IF names = <<>> THEN mv
    ELSE InitMetrics(_init_new_metric(mv, Head(names), ids, n), Tail(names), ids, n)

NumRepRejectedLoose(n) == LessThan(n, 0) \/ ~IsFinite(n)
NumRepRejected(n) == LessThan(n, 1) \/ ~IsFinite(n)

TupleOfIds(d) ==
    IF d.kind # "none"
    THEN IF is_iterable_but_not_str(d) THEN d.items ELSE <<d.items[1]>>
    ELSE <<"dataset1">>

\* CVResults.__init__: the error it raises (and where), or the fields it sets.
CVResultsInit(a) ==
    LET ids == TupleOfIds(a.dataset_ids)
        names == DictKeys(a.metric_set.items)
        blank == [err |-> "none", site |-> "", num_rep |-> 0, dataset_ids |-> <<>>,
                  metric_set |-> <<>>, metric_val |-> EmptyMap]
    IN IF NumRepRejected(a.num_rep)
       THEN [blank EXCEPT !.err = "ValueError", !.site = "num_rep"]
       ELSE IF ~is_iterable_but_not_str(a.metric_set)
       THEN [blank EXCEPT !.err = "ValueError", !.site = "metric_set"]
       ELSE IF names = <<>>
       THEN [blank EXCEPT !.err = "ValueError", !.site = "max"]
       ELSE [blank EXCEPT !.num_rep = a.num_rep.v, !.dataset_ids = ids,
                          !.metric_set = names,
                          !.metric_val = InitMetrics(EmptyMap, names, ids, a.num_rep.v)]

NumRepArgs == {NegInf, NumNaN, PosInf} \cup {Fin(v) : v \in -1 .. MaxRep}
MetricSetArgs == {Iter(<<>>), Iter(<<"acc">>), Iter(<<"acc", "mae">>),
                  Iter(<<"acc", "mae", "acc">>), Str("acc"), Scalar("acc")}
DatasetIdsArgs == {None, Str("A"), Iter(<<"A", "B">>)}
Classes == {"ClassifyCVResults", "RegressCVResults"}

CtorArgs == [cls : Classes, num_rep : NumRepArgs, metric_set : MetricSetArgs,
             dataset_ids : DatasetIdsArgs]
\* Arguments of the stores the method calls are made on.
LiveArgs == [cls : Classes, num_rep : {Fin(v) : v \in 1 .. MaxRep},
             metric_set : {Iter(<<"acc">>), Iter(<<"acc", "mae">>)},
             dataset_ids : {Iter(<<"A", "B">>)}]

Unbuilt ==
    /\ phase = "new"
    /\ args = [cls |-> "", num_rep |-> Fin(0), metric_set |-> None,
               dataset_ids |-> None]
    /\ num_rep = 0
    /\ dataset_ids = <<>>
    /\ metric_set = <<>>
    /\ metric_val = EmptyMap
    /\ count = 0
    /\ attr = EmptyMap
    /\ meta = EmptyMap
    /\ true_targets = EmptyMap
    /\ predicted_targets = EmptyMap
    /\ confusion_mat = EmptyMap
    /\ misclfd_samplets = EmptyMap
    /\ residuals = EmptyMap
    /\ file = NoFile
    /\ last = NoCall
    /\ nops = 0
    /\ written = {}
    /\ adds = {}
    /\ direct = {}

\* A store as ClassifyCVResults(...) / RegressCVResults(...) with path=None
\* leaves it.
Built(a) ==
    LET r == CVResultsInit(a) IN
    /\ r.err = "none"
    /\ phase = "live"
    /\ args = a
    /\ num_rep = r.num_rep
    /\ dataset_ids = r.dataset_ids
    /\ metric_set = r.metric_set
    /\ metric_val = r.metric_val
    /\ count = 0
    /\ attr = EmptyMap
    /\ meta = EmptyMap
    /\ true_targets = EmptyMap
    /\ predicted_targets = EmptyMap
    /\ confusion_mat = EmptyMap
    /\ misclfd_samplets = EmptyMap
    /\ residuals = EmptyMap
    /\ file = NoFile
    /\ last = [NoCall EXCEPT !.op = "__init__"]
    /\ nops = 0
    /\ written = {}
    /\ adds = {}
    /\ direct = {}

Init == \E a \in LiveArgs : Built(a)

\* The constructor called with any arguments.
Construct ==
    /\ phase = "new"
    /\ \E a \in CtorArgs :
        LET r == CVResultsInit(a) IN
        /\ phase' = IF r.err = "none" THEN "live" ELSE "failed"
        /\ args' = a
        /\ num_rep' = r.num_rep
        /\ dataset_ids' = r.dataset_ids
        /\ metric_set' = r.metric_set
        /\ metric_val' = r.metric_val
        /\ last' = [NoCall EXCEPT !.op = "__init__", !.err = r.err, !.site = r.site]
    /\ UNCHANGED <<count, attr, meta, true_targets, predicted_targets,
                   confusion_mat, misclfd_samplets, residuals, file, nops,
                   written, adds, direct>>

\* ------------------------------------------------------------ add, add_metric
Live == phase = "live" /\ nops < MaxOps

RunIds == -1 .. num_rep
DsIds == Range(dataset_ids) \cup {"Z"}
\* <<true_targets, predicted>> of one CV run.
TargetPairs == {<<0, 1>>, <<1, 1>>}

SetCellNextSlot(mv, name, ds, run, cell) ==
    [mv EXCEPT ![name][ds][(Slot(run, ArrLen(mv[name][ds])) + 1)
                             % ArrLen(mv[name][ds])] = cell]
SetCell(mv, name, ds, run, cell) ==
    [mv EXCEPT ![name][ds][Slot(run, ArrLen(mv[name][ds]))] = cell]

\* metric_val[name][dataset_id][run_id] = cell: the error it raises, if any.
CellErr(mv, name, ds, run) ==
    IF ds \notin DOMAIN mv[name] THEN "KeyError"
    ELSE IF ~InRange(run, ArrLen(mv[name][ds])) THEN "IndexError"
    ELSE "none"

\* The loop of add over metric_set.items(): it stops at the first error.
ScoreLoopFirstOnly(mv, names, run, ds, true, predicted) ==
    IF names = <<>> THEN [mv |-> mv, err |-> "none", done |-> {}]
    ELSE LET name == Head(names)
             e == CellErr(mv, name, ds, run)
         IN IF e # "none" THEN [mv |-> mv, err |-> e, done |-> {}]
            ELSE [mv |-> SetCell(mv, name, ds, run,
                                 Val(score_func(name, true, predicted))),
                  err |-> "none", done |-> {name}]
RECURSIVE ScoreLoop(_, _, _, _, _, _)
ScoreLoop(mv, names, run, ds, true, predicted) ==
    IF names = <<>> THEN [mv |-> mv, err |-> "none", done |-> {}]
    ELSE LET name == Head(names)
             e == CellErr(mv, name, ds, run)
         IN IF e # "none" THEN [mv |-> mv, err |-> e, done |-> {}]
            ELSE LET r == ScoreLoop(
                              SetCell(mv, name, ds, run,
                                      Val(score_func(name, true, predicted))),
                              Tail(names), run, ds, true, predicted)
                 IN [r EXCEPT !.done = @ \cup {name}]

\* self._count += 1 stands after the loop: a call that raised never reaches it.
CountAfterEager(c, err) == c + 1
CountAfter(c, err) == IF err = "none" THEN c + 1 ELSE c

Add ==
    /\ Live
    /\ \E run \in RunIds, ds \in DsIds, tp \in TargetPairs :
        LET true == tp[1]
            predicted == tp[2]
            r == ScoreLoop(metric_val, metric_set, run, ds, true, predicted)
        IN
        /\ true_targets' = Put(true_targets, <<ds, run>>, true)
        /\ predicted_targets' = Put(predicted_targets, <<ds, run>>, predicted)
        /\ metric_val' = r.mv
        /\ count' = CountAfter(count, r.err)
        /\ last' = [NoCall EXCEPT !.op = "add", !.err = r.err, !.run = run,
                                  !.ds = ds, !.true = true,
                                  !.predicted = predicted]
        /\ written' = written \cup
               {<<name, ds, Slot(run, num_rep)>> : name \in r.done}
        /\ adds' = IF r.err = "none" THEN adds \cup {<<ds, run>>} ELSE adds
    /\ nops' = nops + 1
    /\ UNCHANGED <<phase, args, num_rep, dataset_ids, metric_set, attr, meta,
                   confusion_mat, misclfd_samplets, residuals, file, direct>>

MetricNames == {"acc", "AUC"}
MetricValues == {NaN, Val(7)}

AddMetric ==
    /\ Live
    /\ \E run \in RunIds, ds \in DsIds, name \in MetricNames, value \in MetricValues :
        LET mv == _init_new_metric(metric_val, name, dataset_ids, num_rep)
            e == CellErr(mv, name, ds, run)
        IN
        /\ metric_val' = IF e = "none" THEN SetCell(mv, name, ds, run, value) ELSE mv
        /\ last' = [NoCall EXCEPT !.op = "add_metric", !.err = e, !.run = run,
                                  !.ds = ds, !.name = name, !.val = value]
        /\ written' = IF e = "none"
                      THEN written \cup {<<name, ds, Slot(run, num_rep)>>}
                      ELSE written
        /\ direct' = IF e = "none" THEN direct \cup {<<name, ds>>} ELSE direct
    /\ nops' = nops + 1
    /\ UNCHANGED <<phase, args, num_rep, dataset_ids, metric_set, count, attr,
                   meta, true_targets, predicted_targets, confusion_mat,
                   misclfd_samplets, residuals, file, adds>>

\* --------------------------------------------- add_attr, add_meta, diagnostics
AttrValues == {1, 2}

AddAttr ==
    /\ Live
    /\ \E run \in {0}, ds \in {"A"}, name \in {"feat_importance"}, value \in AttrValues :
        LET a1 == IF name \notin DOMAIN attr THEN Put(attr, name, EmptyMap) ELSE attr IN
        /\ attr' = [a1 EXCEPT ![name] = Put(@, <<ds, run>>, value)]
        /\ last' = [NoCall EXCEPT !.op = "add_attr", !.run = run, !.ds = ds,
                                  !.name = name, !.val = Val(value)]
    /\ nops' = nops + 1
    /\ UNCHANGED <<phase, args, num_rep, dataset_ids, metric_set, metric_val, count,
                   meta, true_targets, predicted_targets, confusion_mat,
                   misclfd_samplets, residuals, file, written, adds, direct>>

AddMeta ==
    /\ Live
    /\ \E name \in {"class_set"}, value \in AttrValues :
        /\ meta' = Put(meta, name, value)
        /\ last' = [NoCall EXCEPT !.op = "add_meta", !.name = name, !.val = Val(value)]
    /\ nops' = nops + 1
    /\ UNCHANGED <<phase, args, num_rep, dataset_ids, metric_set, metric_val, count,
                   attr, true_targets, predicted_targets, confusion_mat,
                   misclfd_samplets, residuals, file, written, adds, direct>>

IsClassify == args.cls = "ClassifyCVResults"

\* ClassifyCVResults.add_diagnostics(run_id, dataset_id, conf_mat, misclfd_ids) or
\* RegressCVResults.add_diagnostics(run_id, dataset_id, true_targets, predicted).
AddDiagnostics ==
    /\ Live
    /\ \E run \in {0}, ds \in {"A"}, tp \in TargetPairs :
        /\ IF IsClassify
           THEN /\ confusion_mat' = Put(confusion_mat, <<ds, run>>, tp[1])
                /\ misclfd_samplets' = Put(misclfd_samplets, <<ds, run>>, tp[2])
                /\ UNCHANGED residuals
           ELSE /\ residuals' = Put(residuals, <<ds, run>>, tp[2] - tp[1])
                /\ UNCHANGED <<confusion_mat, misclfd_samplets>>
        /\ last' = [NoCall EXCEPT !.op = "add_diagnostics", !.run = run, !.ds = ds,
                                  !.true = tp[1], !.predicted = tp[2]]
    /\ nops' = nops + 1
    /\ UNCHANGED <<phase, args, num_rep, dataset_ids, metric_set, metric_val, count,
                   attr, meta, true_targets, predicted_targets, file, written,
                   adds, direct>>

\* ------------------------------------------------------------------ to_array
FirstKnown(ds_ids, ids) == ds_ids = <<>> \/ ds_ids[1] \in Range(ids)
\* for did in ds_ids: did in self._dataset_ids
AllKnown(ds_ids, ids) == \A i \in DOMAIN ds_ids : ds_ids[i] \in Range(ids)

\* The dataset ids to_array consolidates.
Resolved(arg, ids) == IF arg.kind = "none" THEN ids ELSE arg.items

\* The error to_array(metric, ds_ids) raises, if any.
ToArrayErr(mv, ids, metric, arg) ==
    LET m == Lower(metric) IN
    IF m \notin DOMAIN mv THEN "ValueError"
    ELSE IF arg.kind # "none" /\ ~AllKnown(arg.items, ids) THEN "ValueError"
    ELSE IF \E i \in DOMAIN Resolved(arg, ids) : Resolved(arg, ids)[i] \notin DOMAIN mv[m]
    THEN "KeyError"
    ELSE IF Len(Resolved(arg, ids)) > Cardinality(DOMAIN mv[m]) THEN "IndexError"
    ELSE "none"

\* What a slot of np.empty holds until it is assigned.
Uninitialised == {NaN, Val(0)}

\* The matrices to_array can return, as sequences of columns: np.empty of
\* num_rep x len(m_data), its first len(ds_ids) columns assigned.
ToArrayMats(mv, n, ids, metric, arg) ==
    LET m_data == mv[Lower(metric)]
        sel == Resolved(arg, ids)
        ncols == Cardinality(DOMAIN m_data)
    IN {[i \in 1 .. ncols |-> IF i <= Len(sel) THEN m_data[sel[i]] ELSE rest[i]] :
            rest \in [(Len(sel) + 1) .. ncols -> [0 .. (n - 1) -> Uninitialised]]}

ToArrayMetrics == {"acc", "ACC", "mae", "AUC"}
ToArrayDsIds == {None, Iter(<<"A">>), Iter(<<"B">>), Iter(<<"A", "B">>),
                 Iter(<<"B", "A">>), Iter(<<"A", "Z">>), Iter(<<"A", "A", "B">>)}

ToArray ==
    /\ Live
    /\ \E metric \in ToArrayMetrics, arg \in ToArrayDsIds :
        LET e == ToArrayErr(metric_val, dataset_ids, metric, arg)
            call == [NoCall EXCEPT !.op = "to_array", !.err = e, !.name = metric,
                                   !.ds_ids = arg]
        IN IF e # "none"
           THEN last' = call
           ELSE \E mat \in ToArrayMats(metric_val, num_rep, dataset_ids, metric, arg) :
                   last' = [call EXCEPT !.mat = mat,
                                        !.ids = Resolved(arg, dataset_ids)]
    /\ nops' = nops + 1
    /\ UNCHANGED <<phase, args, num_rep, dataset_ids, metric_set, metric_val, count,
                   attr, meta, true_targets, predicted_targets, confusion_mat,
                   misclfd_samplets, residuals, file, written, adds, direct>>

\* ---------------------------------------------------------------- dump, load
\* What pickle.dump(to_save, df) writes: a list.
Pickled ==
    [kind |-> "list",
     items |-> IF IsClassify
               THEN <<metric_set, metric_val, attr, meta, confusion_mat,
                      misclfd_samplets>>
               ELSE <<metric_set, metric_val, attr, meta>>]

Dump ==
    /\ Live
    /\ file' = Pickled
    /\ last' = [NoCall EXCEPT !.op = "dump"]
    /\ nops' = nops + 1
    /\ UNCHANGED <<phase, args, num_rep, dataset_ids, metric_set, metric_val, count,
                   attr, meta, true_targets, predicted_targets, confusion_mat,
                   misclfd_samplets, residuals, written, adds, direct>>

\* full_results['results']: a list takes integer indices only.
SubscriptErr(obj, key) ==
    IF obj.kind = "dict" /\ key \in DOMAIN obj.items THEN "none"
    ELSE IF obj.kind = "dict" THEN "KeyError"
    ELSE "TypeError"

\* The error load(path) raises, if any: open/unpickle failing is an IOError.
LoadErr(f) ==
    IF f.kind = "absent" THEN "IOError" ELSE SubscriptErr(f, "results")

\* cfg.clf_results_class_variables_to_load / cfg.regr_results_class_variables_to_load
VarsToLoad ==
    IF IsClassify
    THEN {"metric_set", "metric_val", "attr", "meta", "confusion_mat",
          "misclfd_samplets"}
    ELSE {"metric_set", "metric_val", "attr", "meta", "residuals"}

\* setattr(self, var, getattr(results, var)) for var in the variables to load.
Loaded(f, var, current) ==
    IF var \in VarsToLoad THEN f.items["results"][var] ELSE current

\* The fields after load's loop over the variables to load, or untouched when
\* load raised; reset is the constructor's reassignment of the diagnostics.
LoadInto(e, reset) ==
    /\ metric_set' = IF e = "none" THEN Loaded(file, "metric_set", metric_set)
                     ELSE metric_set
    /\ metric_val' = IF e = "none" THEN Loaded(file, "metric_val", metric_val)
                     ELSE metric_val
    /\ attr' = IF e = "none" THEN Loaded(file, "attr", attr) ELSE attr
    /\ meta' = IF e = "none" THEN Loaded(file, "meta", meta) ELSE meta
    /\ confusion_mat' =
           IF e # "none" THEN confusion_mat
           ELSE IF reset THEN EmptyMap
           ELSE Loaded(file, "confusion_mat", confusion_mat)
    /\ misclfd_samplets' =
           IF e # "none" THEN misclfd_samplets
           ELSE IF reset THEN EmptyMap
           ELSE Loaded(file, "misclfd_samplets", misclfd_samplets)
    /\ residuals' =
           IF e # "none" THEN residuals
           ELSE IF reset THEN EmptyMap
           ELSE Loaded(file, "residuals", residuals)

\* self.load(path), path being where dump writes.
Load ==
    /\ Live
    /\ LET e == LoadErr(file) IN
        /\ last' = [NoCall EXCEPT !.op = "load", !.err = e]
        /\ LoadInto(e, FALSE)
    /\ nops' = nops + 1
    /\ UNCHANGED <<phase, args, num_rep, dataset_ids, count, true_targets,
                   predicted_targets, file, written, adds, direct>>

\* ClassifyCVResults(path=...) / RegressCVResults(path=...): a missing path is an
\* IOError, else load(path) runs and the diagnostics are assigned afresh. The
\* object takes the store's place only when the constructor returns.
LoadByConstructor ==
    /\ Live
    /\ LET e == IF file.kind = "absent" THEN "IOError" ELSE LoadErr(file) IN
        /\ last' = [NoCall EXCEPT !.op = "__init__(path)", !.err = e]
        /\ LoadInto(e, TRUE)
    /\ nops' = nops + 1
    /\ UNCHANGED <<phase, args, num_rep, dataset_ids, count, true_targets,
                   predicted_targets, file, written, adds, direct>>

\* ------------------------------------------------- export, stat_comparison
\* ClassifyCVResults.export raises; RegressCVResults inherits CVResults.export,
\* whose body is its docstring (CVResults is no ABC, so it can be called).
ExportErr == IF IsClassify THEN "NotImplementedError" ELSE "none"

Export ==
    /\ Live
    /\ last' = [NoCall EXCEPT !.op = "export", !.err = ExportErr]
    /\ nops' = nops + 1
    /\ UNCHANGED <<phase, args, num_rep, dataset_ids, metric_set, metric_val, count,
                   attr, meta, true_targets, predicted_targets, confusion_mat,
                   misclfd_samplets, residuals, file, written, adds, direct>>

\* posthoc.stat_comparison(clf_results): its body is pass.
StatComparisonErr == "none"

StatComparison ==
    /\ Live
    /\ last' = [NoCall EXCEPT !.op = "stat_comparison", !.err = StatComparisonErr]
    /\ nops' = nops + 1
    /\ UNCHANGED <<phase, args, num_rep, dataset_ids, metric_set, metric_val, count,
                   attr, meta, true_targets, predicted_targets, confusion_mat,
                   misclfd_samplets, residuals, file, written, adds, direct>>

\* ------------------------------------------------------------ specifications
Next ==
    \/ Add
    \/ AddMetric
    \/ AddAttr
    \/ AddMeta
    \/ AddDiagnostics
    \/ ToArray
    \/ Dump
    \/ Load
    \/ LoadByConstructor
    \/ Export
    \/ StatComparison

Spec == Init /\ [][Next]_vars

InitCtor == Unbuilt
NextCtor == Construct
SpecCtor == InitCtor /\ [][NextCtor]_vars

\* ------------------------------------------------------------------- claims
Ids == Range(dataset_ids)
Slots == 0 .. (num_rep - 1)
\* The step is a call of op (a stuttering step is none).
Called(op) == nops' = nops + 1 /\ last'.op = op

\* C1: after add(run_id, dataset_id, predicted, true_targets) with
\* 0 <= run_id < num_rep and dataset_id one of the store's, the call has
\* returned and metric_val[name][dataset_id][run_id] is
\* score_func(true_targets, predicted) for every metric of metric_set,
\* whatever calls came before.
C1_AddStoresScores ==
    (last.op = "add" /\ last.run \in Slots /\ last.ds \in Ids)
        => /\ last.err = "none"
           /\ \A name \in Range(metric_set) :
                  metric_val[name][last.ds][last.run]
                      = Val(score_func(name, last.true, last.predicted))

C1_Witness ==
    /\ last.op = "add" /\ last.run \in Slots /\ last.ds \in Ids
    /\ last.err = "none"
    /\ nops = 2
    /\ Len(metric_set) = 2
    /\ last.true # last.predicted

\* C2: for a registered metric and ds_ids None or distinct ids of the store in
\* any order, to_array returns num_rep rows and exactly one column per
\* selected dataset, column i being metric_val[metric][ds_ids[i]], together
\* with the resolved ids.
C2_ToArrayOneColumnPerSelected ==
    (/\ last.op = "to_array"
     /\ last.name \in DOMAIN metric_val
     /\ AllKnown(last.ds_ids.items, dataset_ids)
     /\ \A i, j \in DOMAIN last.ds_ids.items :
            last.ds_ids.items[i] = last.ds_ids.items[j] => i = j)
        => LET sel == Resolved(last.ds_ids, dataset_ids) IN
           /\ last.err = "none"
           /\ last.ids = sel
           /\ Len(last.mat) = Len(sel)
           /\ \A i \in DOMAIN sel :
                  /\ DOMAIN last.mat[i] = Slots
                  /\ last.mat[i] = metric_val[last.name][sel[i]]

\* C3: dump followed by load of the produced file, by load(path) or by the
\* constructor's path argument, succeeds and restores the metric definitions,
\* metric values, attributes, metadata and the class's diagnostics as dumped.
C3_DumpLoadRoundTrip ==
    (last.op \in {"load", "__init__(path)"} /\ file.kind # "absent")
        => /\ last.err = "none"
           /\ metric_set = file.items[1]
           /\ metric_val = file.items[2]
           /\ attr = file.items[3]
           /\ meta = file.items[4]
           /\ IsClassify => /\ confusion_mat = file.items[5]
                            /\ misclfd_samplets = file.items[6]

\* C4 as stated: to_array with a metric name that is not registered, or with a
\* ds_ids holding an id that is not the store's, raises ValueError and returns
\* no array.
C4_ToArrayRejectsUnregistered ==
    (/\ last.op = "to_array"
     /\ \/ last.name \notin DOMAIN metric_val
        \/ \E i \in DOMAIN last.ds_ids.items : last.ds_ids.items[i] \notin Ids)
        => last.err = "ValueError" /\ last.mat = <<>> /\ last.ids = <<>>

\* C4 as amended: to_array with a metric name whose lower-cased form is not
\* registered, or with a ds_ids holding an id that is not the store's, raises
\* ValueError and returns no array.
C4_ToArrayRejectsUnknown ==
    (/\ last.op = "to_array"
     /\ \/ Lower(last.name) \notin DOMAIN metric_val
        \/ \E i \in DOMAIN last.ds_ids.items : last.ds_ids.items[i] \notin Ids)
        => last.err = "ValueError" /\ last.mat = <<>> /\ last.ids = <<>>

C4_Witness ==
    /\ last.op = "to_array"
    /\ last.name = "acc"
    /\ last.ds_ids = Iter(<<"A", "Z">>)
    /\ last.err = "ValueError"

\* C5: every metric of metric_val has, for every dataset id of the store, an
\* array of exactly num_rep slots; a slot is missing (NaN) unless add or
\* add_metric assigned that slot; and where only add has assigned, with k
\* distinct run ids of 0..num_rep-1 on a dataset, the dataset's array of a
\* metric of metric_set has k non-missing and num_rep - k missing entries.
C5_MetricArrays ==
    \A name \in DOMAIN metric_val :
        /\ DOMAIN metric_val[name] = Ids
        /\ \A ds \in Ids :
            LET arr == metric_val[name][ds]
                runs == {p \in adds : p[1] = ds}
            IN /\ DOMAIN arr = Slots
               /\ \A i \in Slots : arr[i] # NaN => <<name, ds, i>> \in written
               /\ (/\ name \in Range(metric_set)
                   /\ <<name, ds>> \notin direct
                   /\ \A p \in runs : p[2] \in Slots)
                      => /\ Cardinality({i \in Slots : arr[i] # NaN})
                                = Cardinality(runs)
                         /\ Cardinality({i \in Slots : arr[i] = NaN})
                                = num_rep - Cardinality(runs)

C5_Witness ==
    /\ adds = {<<"A", 0>>, <<"A", 1>>}
    /\ \A i \in Slots : metric_val["acc"]["A"][i] # NaN
    /\ \A i \in Slots : metric_val["acc"]["B"][i] = NaN

\* C6: export() on either class and stat_comparison(clf_results) end in a
\* not-implemented error, never returning normally.
C6_UnimplementedRaise ==
    last.op \in {"export", "stat_comparison"} => last.err = "NotImplementedError"

\* C7: add with run_id >= num_rep and a dataset id of the store fails with an
\* out-of-range error (IndexError) and writes no metric value.
C7_AddBeyondNumRepFails ==
    [][(Called("add") /\ last'.run >= num_rep /\ last'.ds \in Ids)
          => last'.err = "IndexError" /\ metric_val' = metric_val]_vars

C7_Witness ==
    /\ last.op = "add" /\ last.run >= num_rep /\ last.ds \in Ids
    /\ last.err = "IndexError"
    /\ Len(metric_set) = 2

\* C8: construction fails with ValueError, creating no store, whenever the
\* repetition count is below 1, NaN or infinite, or the metric set is not an
\* iterable (a bare string counts as not iterable); for a finite count >= 1 and
\* an iterable metric set neither check rejects the arguments.
C8_ConstructorChecks ==
    last.op = "__init__" =>
        LET badRep == args.num_rep.kind \in {"nan", "inf"} \/ args.num_rep.v < 1
            badSet == args.metric_set.kind \in {"str", "scalar", "none"}
        IN /\ (badRep \/ badSet)
                 => /\ phase = "failed"
                    /\ last.err = "ValueError"
                    /\ last.site \in {"num_rep", "metric_set"}
                    /\ metric_val = EmptyMap /\ num_rep = 0
           /\ ~(badRep \/ badSet) => last.site \notin {"num_rep", "metric_set"}
           /\ (~(badRep \/ badSet) /\ args.metric_set.items # <<>>)
                 => phase = "live" /\ last.err = "none" /\ num_rep = args.num_rep.v

C8_Witness ==
    /\ phase = "failed"
    /\ last.op = "__init__"
    /\ args.num_rep = NumNaN
    /\ args.metric_set = Iter(<<"acc", "mae">>)

\* C9: add_metric(run_id, dataset_id, name, value) with a new name creates an
\* all-missing array of num_rep slots for every dataset id and sets only the
\* cell (name, dataset_id, run_id); with a name already present it changes
\* only that cell. Every other metric's arrays, metric_set, the add count,
\* attr, meta and the recorded targets stay as they were, and a later add
\* leaves every metric that is not in metric_set untouched.
C9_AddMetricFrame ==
    [][/\ (Called("add_metric") /\ last'.err = "none")
            => LET name == last'.name IN
               /\ DOMAIN metric_val' = DOMAIN metric_val \cup {name}
               /\ \A m \in DOMAIN metric_val :
                      m # name => metric_val'[m] = metric_val[m]
               /\ DOMAIN metric_val'[name] = Ids
               /\ \A d \in Ids :
                      /\ DOMAIN metric_val'[name][d] = Slots
                      /\ \A i \in Slots :
                             metric_val'[name][d][i] =
                                 IF d = last'.ds /\ i = Slot(last'.run, num_rep)
                                 THEN last'.val
                                 ELSE IF name \in DOMAIN metric_val
                                 THEN metric_val[name][d][i]
                                 ELSE NaN
               /\ UNCHANGED <<metric_set, count, attr, meta, true_targets,
                              predicted_targets>>
       /\ Called("add")
            => \A m \in DOMAIN metric_val \ Range(metric_set) :
                   m \in DOMAIN metric_val' /\ metric_val'[m] = metric_val[m]
      ]_vars

C9_Witness ==
    /\ last.op = "add" /\ last.err = "none"
    /\ "AUC" \in DOMAIN metric_val
    /\ "AUC" \notin Range(metric_set)
    /\ metric_val["AUC"][last.ds][Slot(last.run, num_rep)] = Val(7)
    /\ \E d \in Ids, i \in Slots : metric_val["AUC"][d][i] = NaN

FailedAdd == Called("add") /\ last'.err # "none"

\* C10 as stated: an add that fails leaves true_targets, predicted_targets,
\* metric_val and the add count as they were, so that the key sets of
\* true_targets and predicted_targets are always equal and hold only pairs
\* whose add completed.
C10_FailedAddChangesNothing ==
    [][/\ FailedAdd => UNCHANGED <<true_targets, predicted_targets, metric_val,
                                   count>>
       /\ DOMAIN true_targets' = DOMAIN predicted_targets'
       /\ DOMAIN true_targets' \subseteq adds'
      ]_vars

\* C10 as amended: an add that fails leaves metric_val and the add count as
\* they were, but has already recorded its targets under (dataset_id, run_id)
\* in true_targets and predicted_targets; the key sets of the two are always
\* equal and hold the pair of every add that was called, completed or not.
C10_FailedAddKeepsTargets ==
    [][/\ FailedAdd
            => /\ metric_val' = metric_val
               /\ count' = count
               /\ DOMAIN true_targets'
                      = DOMAIN true_targets \cup {<<last'.ds, last'.run>>}
               /\ true_targets'[<<last'.ds, last'.run>>] = last'.true
               /\ predicted_targets'[<<last'.ds, last'.run>>] = last'.predicted
               /\ \A k \in DOMAIN true_targets :
                      k # <<last'.ds, last'.run>>
                          => /\ true_targets'[k] = true_targets[k]
                             /\ predicted_targets'[k] = predicted_targets[k]
       /\ DOMAIN true_targets' = DOMAIN predicted_targets'
       /\ adds' \subseteq DOMAIN true_targets'
      ]_vars

C10_Witness ==
    /\ last.op = "add" /\ last.err = "KeyError"
    /\ <<last.ds, last.run>> \in DOMAIN true_targets
    /\ <<last.ds, last.run>> \notin adds
    /\ count = 1
====
